---- MODULE Spec2Model ----
(***************************************************************************)
(* Model of the approval pipeline of talent-scout-ai:                      *)
(*   supabase/functions/approve-posting/index.ts                           *)
(* One approval request is a straight line of awaited external calls       *)
(* (row insert, collection lookup, embedding providers, vector upload,     *)
(* similarity search, promotion prediction).  Every action of the model is *)
(* the code that runs between two awaits: it consumes the answer of the    *)
(* call that is outstanding and runs up to the next call or the response.  *)
(* Scores and probabilities are fixed-point numbers in hundredths.         *)
(* The module also holds the helper functions of that file called on their *)
(* own (FunctionsSpec), two invocations of the handler interleaved at      *)
(* their awaits (ConcurrentSpec), supabase/functions/generate-job-posting  *)
(* (GenerationSpec) and the pages src/pages/CreatePosting.tsx and          *)
(* src/pages/ReviewPosting.tsx (PagesSpec, PagesFairSpec).                 *)
(***************************************************************************)
EXTENDS Integers, Sequences, FiniteSets, TLC

\* ------------------------------------------------------------------ bounds
MaxRequests == 1          \* approval requests received in one behaviour
MaxSlots == 2             \* handler invocations that can exist at a time
MaxDim == 2               \* largest vector size the collection reports
MaxVecLen == 3            \* longest vector a provider answers with
MaxResults == 2           \* longest search result / prediction list
MaxCalls == 2             \* successive calls of a helper with the same arguments
MaxLen == 4               \* longest category string, in characters
MaxGenerations == 1       \* clicks on Generate Job Posting
MaxApprovals == 1         \* clicks on Approve

\* ------------------------------------------------------- program constants
DefaultVectorSize == 384  \* checkQdrantCollection fallback
DefaultProbability == 50  \* predictions[index]?.probability || 0.5
Undefined == 0 - 1        \* a field that is absent (JavaScript undefined)

Reqs == 1..MaxSlots

\* ------------------------------------------------------------ input domains
Payloads == {"p1"}             \* the posting under review
ReqKinds == {"valid", "badBody", "badStructured", "noOriginalInput", "missingField"}
ErrTexts == {"e1", "e2"}
\* a provider vector of length n, with pairwise distinct non-zero elements
Vec(n) == [i \in 1..n |-> 10 + i]
ProviderVectors == {Vec(n) : n \in 0..MaxVecLen}
CollectionSizes == 0..MaxDim      \* 0: metadata carries no vector size
\* payload of an employee point; a text field that is absent is AbsentText
\* (the e-mail, a sequence of pieces, <<>>), a number that is absent Undefined
AbsentText == "absent"
TextFields == {"name", "department", "current_role", "designation"}
NumericFields == {"previous_year_rating", "length_of_service", "awards_won",
                  "no_of_trainings", "avg_training_score", "KPIs_met_more_than_80"}
PayloadFields == TextFields \cup NumericFields \cup {"email"}
FullPayload ==
  [name |-> "Ann", department |-> "Tech", current_role |-> "Developer",
   designation |-> "Engineer", email |-> <<"ann", "@company.com">>,
   previous_year_rating |-> 4, length_of_service |-> 6, awards_won |-> 1,
   no_of_trainings |-> 2, avg_training_score |-> 80, KPIs_met_more_than_80 |-> 1]
\* FullPayload without the fields outside `present`
PayloadWith(present) ==
  [f \in PayloadFields |->
     IF f \in present THEN FullPayload[f]
     ELSE IF f \in TextFields THEN AbsentText
     ELSE IF f = "email" THEN <<>>
     ELSE Undefined]
SearchItems == {[id |-> 1, score |-> 90, payload |-> PayloadWith(PayloadFields)],
                [id |-> 2, score |-> 70, payload |-> PayloadWith({})]}
SeqsUpTo(S, n) == UNION {[1..k -> S] : k \in 0..n}
\* a search answers with distinct points
SearchResults ==
  {res \in SeqsUpTo(SearchItems, MaxResults) :
     \A i, j \in DOMAIN res : i # j => res[i].id # res[j].id}
PredictionEntries == {Undefined, 0, 70}
PredictionLists == SeqsUpTo(PredictionEntries, MaxResults)
MockProbabilities == {60, 99}     \* Math.random() * 0.4 + 0.6

\* --------------------------------------------------------------- the state
VARIABLES
  env,                  \* Deno.env: which secrets are configured
  job_postings,         \* rows of table public.job_postings
  nextId,               \* next identifier gen_random_uuid() hands out
  points,               \* points of collection job_postings_cluster
  pc,                   \* per invocation: the call it is awaiting
  req,                  \* per invocation: the request body
  posting,              \* per invocation: row returned by the insert
  embeddingText,        \* per invocation: result of createEmbeddingText
  vectorSize,           \* per invocation: collectionInfo.vectorSize
  providerRaw,          \* per invocation: vector as the provider answered it
  embedding,            \* per invocation: result of getEmbedding
  similarEmployeesData, \* per invocation: result of querySimilarEmployees
  response,             \* per invocation: the HTTP response
  inflight,             \* per invocation: external calls not yet answered
  calls,                \* per invocation: external calls issued, in order
  answers,              \* per invocation: answers received, in order
  budget,               \* approval requests the clients will still send
  fn,                   \* helper function under call (its name)
  args,                 \* arguments of that call
  results,              \* values its successive calls returned
  genPc,                \* generate-job-posting: the call it is awaiting
  genReq,               \* generate-job-posting: the request body
  genSent,              \* generate-job-posting: user_input sent to the LLM endpoint
  genAnswer,            \* generate-job-posting: answer of the LLM endpoint
  genResponse,          \* generate-job-posting: the HTTP response
  route,                \* browser: the path of the page that is mounted
  locationState,        \* browser: location.state the page was opened with
  formData,             \* CreatePosting: useState formData
  isGenerating,         \* CreatePosting: useState isGenerating
  isApproving,          \* ReviewPosting: useState isApproving
  similarEmployees,     \* ReviewPosting: useState similarEmployees
  generateRuns,         \* runs of handleGenerate, in order
  approveRuns,          \* runs of handleApprove, in order
  toasts                \* messages shown by sonner, in order

\* state of the approve-posting handler and of the stores it writes
approval == <<env, job_postings, nextId, points, pc, req, posting, embeddingText,
              vectorSize, providerRaw, embedding, similarEmployeesData, response,
              inflight, calls, answers, budget>>
\* state of a helper function called on its own
functions == <<fn, args, results>>
\* state of the generate-job-posting handler
generation == <<genPc, genReq, genSent, genAnswer, genResponse>>

\* state of the browser pages CreatePosting and ReviewPosting
pages == <<route, locationState, formData, isGenerating, isApproving,
           similarEmployees, generateRuns, approveRuns, toasts>>

vars == <<approval, functions, generation, pages>>

store == <<job_postings, nextId, points>>
locals == <<posting, embeddingText, vectorSize, providerRaw, embedding,
            similarEmployeesData>>

NoRow == [id |-> 0, payload |-> "none"]
NoRequest == [kind |-> "none", payload |-> "none"]
NoResponse == [status |-> 0, keys |-> {}, error |-> <<>>, posting |-> NoRow,
               similarEmployees |-> <<>>]

\* stages of the handler, in program order
StageRank(s) ==
  CASE s = "idle" -> 0
    [] s = "insert" -> 1
    [] s = "collection" -> 2
    [] s = "openai" -> 3
    [] s = "cohere" -> 4
    [] s = "upload" -> 5
    [] s = "search" -> 6
    [] s = "predict" -> 7
    [] s = "done" -> 8
    [] OTHER -> 0

NoGenResponse == [status |-> 0, keys |-> {}, body |-> "none"]

\* no helper function is under call
FunctionsIdle == fn = "none" /\ args = <<>> /\ results = <<>>

\* the generate-job-posting handler has received nothing
NoGenRequest == [method |-> "none", json |-> FALSE, fields |-> {}]
NoLLMAnswer == [kind |-> "none", status |-> 0, body |-> "none"]

GenerationIdle ==
  /\ genPc = "idle"
  /\ genReq = NoGenRequest
  /\ genSent = <<>>
  /\ genAnswer = NoLLMAnswer
  /\ genResponse = NoGenResponse

\* useState({jobTitle: "", careerLevel: "", location: "", department: "", keySkills: ""})
EmptyForm == [jobTitle |-> "", careerLevel |-> "", location |-> "", department |-> "",
              keySkills |-> ""]
\* location.state of a page opened without one
NoLocationState == [generatedPosting |-> "none", originalInput |-> EmptyForm]

\* the browser shows the create-posting form, untouched
PagesIdle ==
  /\ route = "/create-posting"
  /\ locationState = NoLocationState
  /\ formData = EmptyForm
  /\ isGenerating = FALSE
  /\ isApproving = FALSE
  /\ similarEmployees = <<>>
  /\ generateRuns = <<>>
  /\ approveRuns = <<>>
  /\ toasts = <<>>

\* the approve-posting handler has received nothing, the stores are empty
\* and the clients will send `requests` approval requests
ApprovalIdleFor(secrets, requests) ==
  /\ env \in secrets
  /\ job_postings = {}
  /\ nextId = 1
  /\ points = {}
  /\ pc = [r \in Reqs |-> "idle"]
  /\ req = [r \in Reqs |-> NoRequest]
  /\ posting = [r \in Reqs |-> NoRow]
  /\ embeddingText = [r \in Reqs |-> <<>>]
  /\ vectorSize = [r \in Reqs |-> 0]
  /\ providerRaw = [r \in Reqs |-> <<>>]
  /\ embedding = [r \in Reqs |-> <<>>]
  /\ similarEmployeesData = [r \in Reqs |-> <<>>]
  /\ response = [r \in Reqs |-> NoResponse]
  /\ inflight = [r \in Reqs |-> {}]
  /\ calls = [r \in Reqs |-> <<>>]
  /\ answers = [r \in Reqs |-> <<>>]
  /\ budget = requests

ApprovalIdle(secrets) == ApprovalIdleFor(secrets, MaxRequests)

Init ==
  /\ ApprovalIdle([openai : BOOLEAN, cohere : BOOLEAN, promotion : BOOLEAN])
  /\ FunctionsIdle
  /\ GenerationIdle
  /\ PagesIdle

\* ------------------------------------------------------- response assembly
\* the failure body sent without a status
CatchResponseDefaultStatus(message) ==
  [status |-> 200, keys |-> {"error", "stack", "timestamp"}, error |-> message,
   posting |-> NoRow, similarEmployees |-> <<>>]

\* catch (error) { return new Response({error, stack, timestamp}, {status: 500}) }
CatchResponse(message) ==
  [status |-> 500, keys |-> {"error", "stack", "timestamp"}, error |-> message,
   posting |-> NoRow, similarEmployees |-> <<>>]

\* return new Response(JSON.stringify({posting, similarEmployees, qdrant_upload_success: true}))
SuccessResponse(row, employees) ==
  [status |-> 200, keys |-> {"posting", "similarEmployees", "qdrant_upload_success"},
   error |-> <<>>, posting |-> row, similarEmployees |-> employees]

\* the answer of the outstanding call arrives
Answer(r, op, ok, text) ==
  answers' = [answers EXCEPT ![r] = Append(@, [op |-> op, ok |-> ok, text |-> text])]

\* a compensating variant of the catch block, which the code does not have
ThrowAndRollBack(r, message) ==
  /\ response' = [response EXCEPT ![r] = CatchResponse(message)]
  /\ pc' = [pc EXCEPT ![r] = "done"]
  /\ inflight' = [inflight EXCEPT ![r] = {}]
  /\ job_postings' = job_postings \ {posting[r]}
  /\ points' = {q \in points : q.id # posting[r].id}
  /\ UNCHANGED <<calls, nextId>>

\* an exception reaches the catch block of the handler: the invocation
\* ends with the failure response and touches neither store
Throw(r, message) ==
  /\ response' = [response EXCEPT ![r] = CatchResponse(message)]
  /\ pc' = [pc EXCEPT ![r] = "done"]
  /\ inflight' = [inflight EXCEPT ![r] = {}]
  /\ UNCHANGED <<calls, job_postings, nextId, points>>

\* fetch(...) / supabaseClient...insert(...): one external call is issued
Issue(r, op, arg) ==
  /\ pc' = [pc EXCEPT ![r] = op]
  /\ inflight' = [inflight EXCEPT ![r] = {op}]
  /\ calls' = [calls EXCEPT ![r] = Append(@, [op |-> op, arg |-> arg])]
  /\ UNCHANGED response

\* -------------------------------------------------------------- the handler
\* the review page has no approval in flight (the Approve button is
\* disabled while isApproving)
NoneInFlight == \A q \in Reqs : pc[q] \in {"idle", "done"}

\* a new invocation of the handler: fresh locals, then req.json(),
\* JSON.parse(structuredData) and the argument of the insert
Start(r) ==
  /\ pc[r] \in {"idle", "done"}
  /\ NoneInFlight
  /\ \A q \in Reqs : q < r => pc[q] \notin {"idle", "done"}
  /\ budget > 0
  /\ budget' = budget - 1
  /\ \E k \in ReqKinds, p \in Payloads :
       /\ req' = [req EXCEPT ![r] = [kind |-> k, payload |-> p]]
       /\ IF k \in {"badBody", "badStructured", "noOriginalInput"}
          THEN /\ response' = [response EXCEPT ![r] = CatchResponse(
                     <<IF k = "noOriginalInput" THEN "TypeError" ELSE "SyntaxError">>)]
               /\ pc' = [pc EXCEPT ![r] = "done"]
               /\ inflight' = [inflight EXCEPT ![r] = {}]
               /\ calls' = [calls EXCEPT ![r] = <<>>]
          ELSE /\ response' = [response EXCEPT ![r] = NoResponse]
               /\ pc' = [pc EXCEPT ![r] = "insert"]
               /\ inflight' = [inflight EXCEPT ![r] = {"insert"}]
               /\ calls' = [calls EXCEPT ![r] = <<[op |-> "insert", arg |-> 0]>>]
  /\ answers' = [answers EXCEPT ![r] = <<>>]
  /\ posting' = [posting EXCEPT ![r] = NoRow]
  /\ embeddingText' = [embeddingText EXCEPT ![r] = <<>>]
  /\ vectorSize' = [vectorSize EXCEPT ![r] = 0]
  /\ providerRaw' = [providerRaw EXCEPT ![r] = <<>>]
  /\ embedding' = [embedding EXCEPT ![r] = <<>>]
  /\ similarEmployeesData' = [similarEmployeesData EXCEPT ![r] = <<>>]
  /\ UNCHANGED <<env, job_postings, nextId, points>>
  /\ UNCHANGED <<functions, generation, pages>>

\* an insert that keys the row on its content (an upsert on the payload)
InsertRowKeyedOnPayload(id, payload) == [id |-> 1, payload |-> payload]

\* gen_random_uuid(): the row gets the next unused identifier
InsertRow(id, payload) == [id |-> id, payload |-> payload]

\* ---- strings are sequences of characters (or of longer pieces of text)
IsSpace(c) == c \in {" ", "\n"}

RECURSIVE TrimStart(_)
TrimStart(s) == IF s # <<>> /\ IsSpace(s[1]) THEN TrimStart(Tail(s)) ELSE s

RECURSIVE TrimEnd(_)
TrimEnd(s) ==
  IF s # <<>> /\ IsSpace(s[Len(s)]) THEN TrimEnd(SubSeq(s, 1, Len(s) - 1)) ELSE s

\* String.prototype.trim
Trim(s) == TrimEnd(TrimStart(s))

\* Array.prototype.join
RECURSIVE Join(_, _)
Join(items, sep) ==
  IF items = <<>> THEN <<>>
  ELSE IF Len(items) = 1 THEN items[1]
  ELSE items[1] \o sep \o Join(Tail(items), sep)

\* JSON.parse(structuredData) and naturalPosting of the posting under review
ParsedData(payload) ==
  [title |-> <<payload>>, job_type |-> <<"Full Time">>, work_setting |-> <<"Remote">>,
   location |-> <<"Cairo">>, experience_needed |-> <<"3">>, career_level |-> <<"Senior">>,
   education_level |-> <<"BSc">>, job_categories |-> <<"Tech">>,
   skills |-> [type |-> "string", value |-> <<"sql", ", ", "go">>]]

NaturalPosting(payload) == <<"We", " ", "hire", " ", payload>>

\* a text that also depends on how many calls were made before
createEmbeddingTextStamped(structuredData, naturalPosting) ==
  <<"Job Title: ">> \o structuredData.title \o <<"\n", "Job Description:", "\n">>
    \o naturalPosting \o [i \in 1..Len(results) |-> "again"]

\* the labelled field block followed by the posting text, twice; skills is
\* the string itself, the array joined with ', ', or ''
createEmbeddingText(structuredData, naturalPosting) ==
  LET skills == IF structuredData.skills.type = "string" THEN structuredData.skills.value
                ELSE IF structuredData.skills.type = "array"
                     THEN Join(structuredData.skills.value, <<", ">>)
                     ELSE <<>>
  IN Trim(<<"\n", "Job Title: ">> \o structuredData.title
          \o <<"\n", "Job Type: ">> \o structuredData.job_type
          \o <<"\n", "Work Setting: ">> \o structuredData.work_setting
          \o <<"\n", "Location: ">> \o structuredData.location
          \o <<"\n", "Experience Level: ">> \o structuredData.experience_needed
          \o <<"\n", "Career Level: ">> \o structuredData.career_level
          \o <<"\n", "Education Required: ">> \o structuredData.education_level
          \o <<"\n", "Department/Categories: ">> \o structuredData.job_categories
          \o <<"\n", "Required Skills: ">> \o skills
          \o <<"\n", "\n", "Job Description:", "\n">> \o naturalPosting
          \o <<"\n", "\n", "Job Requirements:", "\n">> \o naturalPosting
          \o <<"\n", " ", " ">>)

\* answers of the posting store to the insert: the row, or an error object
InsertResponses ==
  {[ok |-> TRUE, message |-> <<>>]}
    \cup {[ok |-> FALSE, message |-> m] : m \in {<<"Unknown error occurred">>, <<"PostgrestError">>}}

\* const { data: posting, error } = await ...insert(...).select().single();
\* if (error) throw error; createEmbeddingText; checkQdrantCollection()
InsertResponse(r) ==
  /\ pc[r] = "insert"
  /\ \E resp \in InsertResponses :
       /\ req[r].kind = "missingField" => ~resp.ok
       /\ Answer(r, "insert", resp.ok, "none")
       /\ IF resp.ok
          THEN /\ posting' = [posting EXCEPT ![r] = InsertRow(nextId, req[r].payload)]
               /\ job_postings' = job_postings \cup {posting'[r]}
               /\ nextId' = nextId + 1
               /\ embeddingText' = [embeddingText EXCEPT ![r] = 
                      createEmbeddingText(ParsedData(req[r].payload), NaturalPosting(req[r].payload))]
               /\ Issue(r, "collection", 0)
               /\ UNCHANGED points
          ELSE /\ Throw(r, resp.message)
               /\ UNCHANGED <<posting, embeddingText>>
  /\ UNCHANGED <<env, req, vectorSize, providerRaw, embedding,
                 similarEmployeesData, budget>>
  /\ UNCHANGED <<functions, generation, pages>>

\* getEmbedding: the error thrown when no provider is left to try
ConfigurationError == <<"NO EMBEDDING API CONFIGURED", "OPENAI_API_KEY", "COHERE_API_KEY">>

\* getEmbedding with Cohere tried before OpenAI
TryCohereFirst(r, from, targetDimensions) ==
  IF env.cohere /\ from = "openai"
  THEN Issue(r, "cohere", targetDimensions) /\ UNCHANGED store
  ELSE IF env.openai /\ from = "openai"
       THEN Issue(r, "openai", targetDimensions) /\ UNCHANGED store
       ELSE Throw(r, ConfigurationError)

\* getEmbedding, "Try OpenAI first" / "Try Cohere" / throw new Error(NO
\* EMBEDDING API CONFIGURED): the provider to call once the providers
\* before `from` have been passed over
TryProviders(r, from, targetDimensions) ==
  IF from = "openai" /\ env.openai
  THEN Issue(r, "openai", targetDimensions) /\ UNCHANGED store
  ELSE IF env.cohere
       THEN Issue(r, "cohere", targetDimensions) /\ UNCHANGED store
       ELSE Throw(r, ConfigurationError)

\* checkQdrantCollection: size reported by the collection, or 384
CollectionResponses ==
  {[kind |-> "notOk", size |-> 0], [kind |-> "throws", size |-> 0]}
    \cup {[kind |-> "ok", size |-> n] : n \in CollectionSizes}

\* the lookup without the `|| 384` on a missing size
checkQdrantCollectionNoFallback(resp) ==
  IF resp.kind = "ok" THEN resp.size ELSE DefaultVectorSize

checkQdrantCollection(resp) ==
  IF resp.kind = "ok" /\ resp.size # 0 THEN resp.size ELSE DefaultVectorSize

\* await checkQdrantCollection(); getEmbedding(embeddingText, vectorSize)
CollectionResponse(r) ==
  /\ pc[r] = "collection"
  /\ \E resp \in CollectionResponses :
       /\ Answer(r, "collection", resp.kind = "ok",
                 IF resp.kind = "ok" /\ resp.size = 0 THEN "noSize" ELSE "none")
       /\ vectorSize' = [vectorSize EXCEPT ![r] = checkQdrantCollection(resp)]
       /\ TryProviders(r, "openai", vectorSize'[r])
  /\ UNCHANGED <<env, req, posting, embeddingText, providerRaw, embedding,
                 similarEmployeesData, budget>>
  /\ UNCHANGED <<functions, generation, pages>>

\* answers of an embedding provider: a vector, a non-success status with a
\* body text, a thrown fetch, or a success whose body has no embedding
ProviderResponses ==
  {[kind |-> "ok", vec |-> v, text |-> "none"] : v \in ProviderVectors}
    \cup {[kind |-> "notOk", vec |-> <<>>, text |-> t] : t \in ErrTexts}
    \cup {[kind |-> k, vec |-> <<>>, text |-> "none"] : k \in {"throws", "malformed"}}

\* an adjustment that keeps the last elements and pads in front
ResizeKeepTail(v, targetDimensions) ==
  IF Len(v) > targetDimensions
  THEN SubSeq(v, Len(v) - targetDimensions + 1, Len(v))
  ELSE IF Len(v) < targetDimensions
       THEN [i \in 1..(targetDimensions - Len(v)) |-> 0] \o v
       ELSE v

\* "Adjust dimensions if needed": slice(0, target) or pad with zeros
Resize(v, targetDimensions) ==
  IF Len(v) > targetDimensions
  THEN SubSeq(v, 1, targetDimensions)
  ELSE IF Len(v) < targetDimensions
       THEN v \o [i \in 1..(targetDimensions - Len(v)) |-> 0]
       ELSE v

\* getEmbedding, OpenAI branch: return embedding (as answered)
OpenAIEmbedding(v, targetDimensions) == v

\* getEmbedding, Cohere branch: adjust dimensions, return embedding
CohereEmbedding(v, targetDimensions) == Resize(v, targetDimensions)

\* a point keyed by an identifier of its own
QdrantPointOwnId(row, vector, text) ==
  [id |-> row.id + 1, vector |-> vector, job_id |-> row.id,
   payload |-> row.payload, embedding_text |-> text]

\* a point keyed by the row inserted last, by whichever invocation
QdrantPointLastRow(row, vector, text) ==
  [id |-> nextId - 1, vector |-> vector, job_id |-> nextId - 1,
   payload |-> row.payload, embedding_text |-> text]

\* the point sent to PUT /collections/job_postings_cluster/points
QdrantPoint(row, vector, text) ==
  [id |-> row.id, vector |-> vector, job_id |-> row.id,
   payload |-> row.payload, embedding_text |-> text]

\* the upload issued together with the similarity search
StartUploadAndSearch(r, vector) ==
  /\ embedding' = [embedding EXCEPT ![r] = vector]
  /\ pc' = [pc EXCEPT ![r] = "upload"]
  /\ inflight' = [inflight EXCEPT ![r] = {"upload", "search"}]
  /\ calls' = [calls EXCEPT ![r] =
                 Append(@, [op |-> "upload", arg |-> QdrantPoint(posting[r], vector, embeddingText[r]).id])]
  /\ UNCHANGED <<response, store>>

\* getEmbedding returned: processDepartments, build qdrantPayload, fetch PUT
StartUpload(r, vector) ==
  /\ embedding' = [embedding EXCEPT ![r] = vector]
  /\ Issue(r, "upload", QdrantPoint(posting[r], vector, embeddingText[r]).id)
  /\ UNCHANGED store

\* throw new Error(`Cohere API failed (${response.status}): ${errorText}`),
\* or the error that fetch or the access to the body threw
ProviderError(name, resp) ==
  IF resp.kind = "notOk" THEN <<name, "API failed", resp.text>>
  ELSE IF resp.kind = "throws" THEN <<"fetch failed">>
  ELSE <<"TypeError">>

\* await fetch('https://api.openai.com/v1/embeddings'); a failure is caught
\* and logged, and getEmbedding continues with Cohere
OpenAIResponse(r) ==
  /\ pc[r] = "openai"
  /\ \E resp \in ProviderResponses :
       /\ Answer(r, "openai", resp.kind = "ok", resp.text)
       /\ IF resp.kind = "ok"
          THEN /\ providerRaw' = [providerRaw EXCEPT ![r] = resp.vec]
               /\ StartUpload(r, OpenAIEmbedding(resp.vec, vectorSize[r]))
          ELSE /\ TryProviders(r, "cohere", vectorSize[r])
               /\ UNCHANGED <<providerRaw, embedding>>
  /\ UNCHANGED <<env, req, posting, embeddingText, vectorSize,
                 similarEmployeesData, budget>>
  /\ UNCHANGED <<functions, generation, pages>>

\* the Cohere catch block calling the provider again
CohereFailedRetry(r, resp) == Issue(r, "cohere", vectorSize[r]) /\ UNCHANGED store

\* the Cohere catch block falling through to the final throw
CohereFailedFallThrough(r, resp) == Throw(r, ConfigurationError)

\* catch (error) { console.error('Cohere embedding failed'); throw error; }
CohereFailed(r, resp) == Throw(r, ProviderError("Cohere", resp))

\* await fetch('https://api.cohere.ai/v1/embed')
CohereResponse(r) ==
  /\ pc[r] = "cohere"
  /\ \E resp \in ProviderResponses :
       /\ Answer(r, "cohere", resp.kind = "ok", resp.text)
       /\ IF resp.kind = "ok"
          THEN /\ providerRaw' = [providerRaw EXCEPT ![r] = resp.vec]
               /\ StartUpload(r, CohereEmbedding(resp.vec, vectorSize[r]))
          ELSE /\ CohereFailed(r, resp)
               /\ UNCHANGED <<providerRaw, embedding>>
  /\ UNCHANGED <<env, req, posting, embeddingText, vectorSize,
                 similarEmployeesData, budget>>
  /\ UNCHANGED <<functions, generation, pages>>

\* answers of the vector service to the upsert
UploadResponses ==
  {[kind |-> "ok", text |-> "none"], [kind |-> "throws", text |-> "none"]}
    \cup {[kind |-> "notOk", text |-> t] : t \in ErrTexts}

\* an upload whose failure is only logged
UploadNeverFails(resp) == FALSE

\* if (!qdrantResponse.ok) throw ...; a thrown fetch propagates as well
UploadFailed(resp) == resp.kind # "ok"

\* the message without the body of the answer
UploadErrorNoBody(resp) == <<"Qdrant job posting upload failed">>

\* throw new Error(`Qdrant job posting upload failed: ${errorText}`)
UploadError(resp) ==
  IF resp.kind = "notOk" THEN <<"Qdrant job posting upload failed", resp.text>>
  ELSE <<"fetch failed">>

\* the vector service stores the point under its id (upsert)
Upsert(pts, pt) == {q \in pts : q.id # pt.id} \cup {pt}

\* await fetch(`${QDRANT_URL}/collections/job_postings_cluster/points?wait=true`)
UploadResponse(r) ==
  /\ pc[r] = "upload"
  /\ \E resp \in UploadResponses :
       /\ Answer(r, "upload", resp.kind = "ok", resp.text)
       /\ IF UploadFailed(resp)
          THEN Throw(r, UploadError(resp))
          ELSE /\ points' = IF resp.kind = "ok"
                            THEN Upsert(points, QdrantPoint(posting[r], embedding[r], embeddingText[r]))
                            ELSE points
               /\ Issue(r, "search", Len(embedding[r]))
               /\ UNCHANGED <<job_postings, nextId>>
  /\ UNCHANGED <<env, req, locals, budget>>
  /\ UNCHANGED <<functions, generation, pages>>

\* answers of the vector service to the search
SearchResponses ==
  {[kind |-> "ok", result |-> res, text |-> "none"] : res \in SearchResults}
    \cup {[kind |-> "notOk", result |-> <<>>, text |-> t] : t \in ErrTexts}
    \cup {[kind |-> k, result |-> <<>>, text |-> "none"] : k \in {"throws", "malformed"}}

\* text || fallback, number || 0: an absent or empty value gives the default
OrText(v, fallback) == IF v \in {AbsentText, ""} THEN fallback ELSE v
OrZero(v) == IF v \in {Undefined, 0} THEN 0 ELSE v

\* the mapping without the fallback of current_role to designation
EmployeeNoDesignation(item) ==
  [id |-> item.id,
   name |-> OrText(item.payload.name, "Unknown"),
   department |-> OrText(item.payload.department, "Unknown"),
   current_role |-> OrText(item.payload.current_role, "Unknown"),
   email |-> IF item.payload.email = <<>>
             THEN <<"employee", ToString(item.id), "@company.com">>
             ELSE item.payload.email,
   similarity_score |-> item.score,
   previous_year_rating |-> OrZero(item.payload.previous_year_rating),
   length_of_service |-> OrZero(item.payload.length_of_service),
   awards_won |-> OrZero(item.payload.awards_won),
   no_of_trainings |-> OrZero(item.payload.no_of_trainings),
   avg_training_score |-> OrZero(item.payload.avg_training_score),
   KPIs_met_more_than_80 |-> OrZero(item.payload.KPIs_met_more_than_80),
   promotion_probability |-> Undefined]

\* result.result.map(item => ({id, name: item.payload.name || 'Unknown', ...}));
\* promotion_probability is not set here
Employee(item) ==
  [id |-> item.id,
   name |-> OrText(item.payload.name, "Unknown"),
   department |-> OrText(item.payload.department, "Unknown"),
   current_role |-> OrText(item.payload.current_role,
                           OrText(item.payload.designation, "Unknown")),
   email |-> IF item.payload.email = <<>>
             THEN <<"employee", ToString(item.id), "@company.com">>
             ELSE item.payload.email,
   similarity_score |-> item.score,
   previous_year_rating |-> OrZero(item.payload.previous_year_rating),
   length_of_service |-> OrZero(item.payload.length_of_service),
   awards_won |-> OrZero(item.payload.awards_won),
   no_of_trainings |-> OrZero(item.payload.no_of_trainings),
   avg_training_score |-> OrZero(item.payload.avg_training_score),
   KPIs_met_more_than_80 |-> OrZero(item.payload.KPIs_met_more_than_80),
   promotion_probability |-> Undefined]

querySimilarEmployees(result) == [i \in 1..Len(result) |-> Employee(result[i])]

\* throw new Error(`Qdrant employee search failed: ${errorText}`)
SearchError(resp) ==
  IF resp.kind = "notOk" THEN <<"Qdrant employee search failed", resp.text>>
  ELSE IF resp.kind = "throws" THEN <<"fetch failed">>
  ELSE <<"TypeError">>

\* the handler returns the success envelope
Respond(r, employees) ==
  /\ response' = [response EXCEPT ![r] = SuccessResponse(posting[r], employees)]
  /\ pc' = [pc EXCEPT ![r] = "done"]
  /\ inflight' = [inflight EXCEPT ![r] = {}]
  /\ UNCHANGED <<calls, store>>

\* similarEmployeesData.map(emp => ({...emp, promotion_probability: Math.random() * 0.4 + 0.6}))
MockPredictions(employees, rnd) ==
  [i \in 1..Len(employees) |-> [employees[i] EXCEPT !.promotion_probability = rnd[i]]]

\* a branch that asks for predictions whenever the endpoint is configured
ShouldPredictAlways(employees) == env.promotion

\* if (PROMOTION_MODEL_URL && similarEmployeesData.length > 0)
ShouldPredict(employees) == env.promotion /\ Len(employees) > 0

\* await fetch(`${QDRANT_URL}/collections/employees/points/search`) and the
\* branch on PROMOTION_MODEL_URL && similarEmployeesData.length > 0
SearchResponse(r) ==
  /\ pc[r] = "search"
  /\ \E resp \in SearchResponses :
       /\ Answer(r, "search", resp.kind = "ok", resp.text)
       /\ IF resp.kind = "ok"
          THEN /\ similarEmployeesData' =
                    [similarEmployeesData EXCEPT ![r] = querySimilarEmployees(resp.result)]
               /\ IF ShouldPredict(similarEmployeesData'[r])
                  THEN Issue(r, "predict", Len(similarEmployeesData'[r])) /\ UNCHANGED store
                  ELSE \E rnd \in [1..Len(resp.result) -> MockProbabilities] :
                         Respond(r, MockPredictions(similarEmployeesData'[r], rnd))
          ELSE /\ Throw(r, SearchError(resp))
               /\ UNCHANGED similarEmployeesData
  /\ UNCHANGED <<env, req, posting, embeddingText, vectorSize, providerRaw,
                 embedding, budget>>
  /\ UNCHANGED <<functions, generation, pages>>

\* answers of the promotion model
PredictionResponses ==
  {[kind |-> "ok", predictions |-> ps] : ps \in PredictionLists}
    \cup {[kind |-> k, predictions |-> <<>>] : k \in {"notOk", "throws"}}

\* predictions[index]?.probability || 0.5
Probability(predictions, index) ==
  IF index > Len(predictions) \/ predictions[index] = Undefined \/ predictions[index] = 0
  THEN DefaultProbability
  ELSE predictions[index]

\* employees.map((emp, index) => ({...emp, promotion_probability: ...}))
addPromotionPredictions(employees, predictions) ==
  [i \in 1..Len(employees) |->
     [employees[i] EXCEPT !.promotion_probability = Probability(predictions, i)]]

\* a prediction failure handled like the failure of any other stage
PredictionFailedFatal(r) == Throw(r, <<"Promotion prediction API failed">>)

\* catch (error) { console.error('Promotion prediction failed, using
\* similarity only') }: similarEmployees stays similarEmployeesData
PredictionFailed(r) == Respond(r, similarEmployeesData[r])

\* await fetch(PROMOTION_MODEL_URL) inside try { } catch { }
PredictResponse(r) ==
  /\ pc[r] = "predict"
  /\ \E resp \in PredictionResponses :
       /\ Answer(r, "predict", resp.kind = "ok", "none")
       /\ IF resp.kind = "ok"
          THEN Respond(r, addPromotionPredictions(similarEmployeesData[r], resp.predictions))
          ELSE PredictionFailed(r)
  /\ UNCHANGED <<env, req, locals, budget>>
  /\ UNCHANGED <<functions, generation, pages>>

Next ==
  \E r \in Reqs :
    \/ Start(r)
    \/ InsertResponse(r)
    \/ CollectionResponse(r)
    \/ OpenAIResponse(r)
    \/ CohereResponse(r)
    \/ UploadResponse(r)
    \/ SearchResponse(r)
    \/ PredictResponse(r)

Spec == Init /\ [][Next]_vars

\* --------------------------------------------- two invocations at a time
\* Deno.serve runs one invocation of the handler per request and switches
\* between invocations at every await: two approval requests are sent
\* without waiting for one another, each into an invocation of its own
ConcurrentInit ==
  /\ ApprovalIdleFor([openai : {TRUE}, cohere : BOOLEAN, promotion : BOOLEAN], 2)
  /\ FunctionsIdle
  /\ GenerationIdle
  /\ PagesIdle

\* a new invocation of the handler while another one may be awaiting a call
ConcurrentStart(r) ==
  /\ pc[r] = "idle"
  /\ \A q \in Reqs : q < r => pc[q] # "idle"
  /\ budget > 0
  /\ budget' = budget - 1
  /\ \E k \in ReqKinds, p \in Payloads :
       /\ req' = [req EXCEPT ![r] = [kind |-> k, payload |-> p]]
       /\ IF k \in {"badBody", "badStructured", "noOriginalInput"}
          THEN /\ response' = [response EXCEPT ![r] = CatchResponse(
                     <<IF k = "noOriginalInput" THEN "TypeError" ELSE "SyntaxError">>)]
               /\ pc' = [pc EXCEPT ![r] = "done"]
               /\ inflight' = [inflight EXCEPT ![r] = {}]
               /\ calls' = [calls EXCEPT ![r] = <<>>]
          ELSE /\ response' = [response EXCEPT ![r] = NoResponse]
               /\ pc' = [pc EXCEPT ![r] = "insert"]
               /\ inflight' = [inflight EXCEPT ![r] = {"insert"}]
               /\ calls' = [calls EXCEPT ![r] = <<[op |-> "insert", arg |-> 0]>>]
  /\ UNCHANGED <<env, job_postings, nextId, points, answers, locals>>
  /\ UNCHANGED <<functions, generation, pages>>

\* the data of the two requests is kept to the smallest that lets them
\* differ (the data domains are explored one request at a time by Spec):
\* well-formed bodies, a collection of one dimension, vectors and match
\* lists of at most one element, one error text
ConcurrentScope ==
  \A r \in Reqs :
    /\ req[r].kind \in {"none", "valid"}
    /\ vectorSize[r] \in {0, 1}
    /\ Len(providerRaw[r]) <= 1
    /\ Len(similarEmployeesData[r]) <= 1
    /\ \A i \in DOMAIN answers[r] : answers[r][i].text \in {"none", "e1"}

ConcurrentNext ==
  \E r \in Reqs :
    \/ ConcurrentStart(r) /\ ConcurrentScope'
    \/ InsertResponse(r) /\ ConcurrentScope'
    \/ CollectionResponse(r) /\ ConcurrentScope'
    \/ OpenAIResponse(r) /\ ConcurrentScope'
    \/ CohereResponse(r) /\ ConcurrentScope'
    \/ UploadResponse(r) /\ ConcurrentScope'
    \/ SearchResponse(r) /\ ConcurrentScope'
    \/ PredictResponse(r) /\ ConcurrentScope'

ConcurrentSpec == ConcurrentInit /\ [][ConcurrentNext]_vars

\* ------------------------------------------ helper functions on their own
\* String.prototype.replace(/pat/g, rep): every match, left to right
RECURSIVE ReplaceAll(_, _, _)
ReplaceAll(s, pat, rep) ==
  IF Len(s) < Len(pat) THEN s
  ELSE IF SubSeq(s, 1, Len(pat)) = pat
       THEN rep \o ReplaceAll(SubSeq(s, Len(pat) + 1, Len(s)), pat, rep)
       ELSE <<s[1]>> \o ReplaceAll(Tail(s), pat, rep)

\* String.prototype.split(sep) for a separator of one character
RECURSIVE Split(_, _)
Split(s, sep) ==
  IF \A i \in DOMAIN s : s[i] # sep THEN <<s>>
  ELSE LET i == CHOOSE k \in DOMAIN s : s[k] = sep /\ \A j \in 1..(k - 1) : s[j] # sep
       IN <<SubSeq(s, 1, i - 1)>> \o Split(SubSeq(s, i + 1, Len(s)), sep)

NonEmpty(k) == Len(k) > 0

General == <<"General">>

\* processDepartments without the trim of the segments
processDepartmentsUntrimmed(rawCategories) ==
  LET processedString ==
        ReplaceAll(ReplaceAll(ReplaceAll(ReplaceAll(rawCategories,
          <<" ", "-", " ">>, <<",">>), <<" ", "/", " ">>, <<",">>), <<"/">>, <<",">>), <<"-">>, <<",">>)
      keywords == SelectSeq(Split(processedString, ","), NonEmpty)
  IN IF Len(keywords) > 0 THEN keywords ELSE <<General>>

\* rawCategories.replace(/ - /g, ',').replace(/ \/ /g, ',').replace(/\//g, ',')
\*   .replace(/-/g, ','), then split(',').map(trim).filter(length > 0)
processDepartments(rawCategories) ==
  LET processedString ==
        ReplaceAll(ReplaceAll(ReplaceAll(ReplaceAll(rawCategories,
          <<" ", "-", " ">>, <<",">>), <<" ", "/", " ">>, <<",">>), <<"/">>, <<",">>), <<"-">>, <<",">>)
      parts == Split(processedString, ",")
      keywords == SelectSeq([i \in DOMAIN parts |-> Trim(parts[i])], NonEmpty)
  IN IF Len(keywords) > 0 THEN keywords ELSE <<General>>

\* ---- arguments the helpers are called with
Chars == {"T", "S", " ", "-", "/", ","}
CategoryExample == <<"T", " ", "-", " ", "S", " ", "/", " ", "E">>
CategoryStrings == SeqsUpTo(Chars, MaxLen) \cup {CategoryExample}

EmployeeLists == {querySimilarEmployees(res) : res \in SearchResults}

\* prediction responses, with both bounds of the probability range
BoundedPredictionLists == SeqsUpTo(PredictionEntries \cup {100}, MaxResults)

TargetDimensions == {checkQdrantCollection(resp) : resp \in CollectionResponses}

SkillsValues ==
  {[type |-> "string", value |-> <<"sql", ", ", "go">>],
   [type |-> "array", value |-> <<<<"sql">>, <<"go">>>>],
   [type |-> "other", value |-> <<>>]}
StructuredDatas == {[ParsedData("p1") EXCEPT !.skills = sk] : sk \in SkillsValues}
PostingTexts == {<<>>, <<"We", " ", "hire">>, <<"We", " ", "hire", "\n">>}

\* text.slice(0, 8000): the cap on the text sent to a provider
TextLimit == 8000

\* text.slice(start, end) for 0 <= start <= end
Slice(text, start, end) ==
  SubSeq(text, start + 1, IF end < Len(text) THEN end ELSE Len(text))

Providers == {"openai", "cohere"}

\* the input in which the Cohere request carries the text uncut
ProviderInputCohereUncut(provider, text) ==
  IF provider = "openai" THEN Slice(text, 0, TextLimit) ELSE text

\* input: text.slice(0, 8000) of the OpenAI request body and
\* texts: [text.slice(0, 8000)] of the Cohere request body
ProviderInput(provider, text) ==
  IF provider = "openai" THEN Slice(text, 0, TextLimit)
  ELSE Slice(text, 0, TextLimit)

\* an embedding text of n characters (character codes), no two neighbours equal
TextOfLength(n) == [i \in 1..n |-> i % 10]
TextLengths == {0, 1, TextLimit - 1, TextLimit, TextLimit + 1, TextLimit + 5}
EmbeddingTexts == {TextOfLength(n) : n \in TextLengths}

\* search results of one point whose payload has any subset of the fields
PayloadItems ==
  {[id |-> 7, score |-> 83, payload |-> PayloadWith(present)] : present \in SUBSET PayloadFields}

FunctionsInit ==
  /\ ApprovalIdle({[openai |-> FALSE, cohere |-> FALSE, promotion |-> FALSE]})
  /\ GenerationIdle
  /\ PagesIdle
  /\ results = <<>>
  /\ \/ fn = "addPromotionPredictions" /\ args \in EmployeeLists \X BoundedPredictionLists
     \/ fn = "CohereEmbedding" /\ args \in ProviderVectors \X TargetDimensions
     \/ fn = "processDepartments" /\ args \in {<<c>> : c \in CategoryStrings}
     \/ fn = "createEmbeddingText" /\ args \in StructuredDatas \X PostingTexts
     \/ fn = "getEmbedding" /\ args \in Providers \X EmbeddingTexts
     \/ fn = "querySimilarEmployees" /\ args \in {<<(<<item>>)>> : item \in PayloadItems}

\* the helper under call has returned fewer than MaxCalls times
MayCall(f) == fn = f /\ Len(results) < MaxCalls

\* addPromotionPredictions once the prediction endpoint has answered
CallAddPromotionPredictions ==
  /\ MayCall("addPromotionPredictions")
  /\ results' = Append(results, addPromotionPredictions(args[1], args[2]))
  /\ UNCHANGED <<fn, args, approval, generation, pages>>

\* getEmbedding, Cohere branch, once the provider has answered
CallCohereEmbedding ==
  /\ MayCall("CohereEmbedding")
  /\ results' = Append(results, CohereEmbedding(args[1], args[2]))
  /\ UNCHANGED <<fn, args, approval, generation, pages>>

CallProcessDepartments ==
  /\ MayCall("processDepartments")
  /\ results' = Append(results, processDepartments(args[1]))
  /\ UNCHANGED <<fn, args, approval, generation, pages>>

CallCreateEmbeddingText ==
  /\ MayCall("createEmbeddingText")
  /\ results' = Append(results, createEmbeddingText(args[1], args[2]))
  /\ UNCHANGED <<fn, args, approval, generation, pages>>

\* querySimilarEmployees once the search has answered
CallQuerySimilarEmployees ==
  /\ MayCall("querySimilarEmployees")
  /\ results' = Append(results, querySimilarEmployees(args[1]))
  /\ UNCHANGED <<fn, args, approval, generation, pages>>

\* getEmbedding up to the request it sends to one provider
CallGetEmbedding ==
  /\ MayCall("getEmbedding")
  /\ results' = Append(results, ProviderInput(args[1], args[2]))
  /\ UNCHANGED <<fn, args, approval, generation, pages>>

FunctionsNext ==
  \/ CallAddPromotionPredictions
  \/ CallCohereEmbedding
  \/ CallProcessDepartments
  \/ CallCreateEmbeddingText
  \/ CallQuerySimilarEmployees
  \/ CallGetEmbedding

FunctionsSpec == FunctionsInit /\ [][FunctionsNext]_vars

\* ------------------------------------------- the generate-job-posting handler
GenFields == {"jobTitle", "careerLevel", "location", "department", "keySkills"}

\* requests: a CORS preflight, a body that is not JSON, or a JSON body with
\* any of the five fields
GenRequests ==
  {[method |-> m, json |-> FALSE, fields |-> {}] : m \in {"OPTIONS", "POST"}}
    \cup {[method |-> "POST", json |-> TRUE, fields |-> f] : f \in SUBSET GenFields}

FieldText(fields, f) == IF f \in fields THEN f ELSE "undefined"

\* `Job Title: ${jobTitle}\nCareer Level: ...${keySkills ? `\nKey Skills: ${keySkills}` : ''}`
userInput(fields) ==
  <<"Job Title: ", FieldText(fields, "jobTitle"),
    "\nCareer Level: ", FieldText(fields, "careerLevel"),
    "\nLocation: ", FieldText(fields, "location"),
    "\nDepartment: ", FieldText(fields, "department")>>
    \o (IF "keySkills" \in fields THEN <<"\nKey Skills: ", "keySkills">> ELSE <<>>)

\* catch (error) { return new Response({ error: errorMessage }, { status: 500 }) }
GenCatchResponse(message) == [status |-> 500, keys |-> {"error"}, body |-> message]

\* answers of the LLM endpoint: the fetch throws, or a status with a body
\* that is the generated posting, a JSON error object, or no JSON at all
LLMAnswers ==
  {[kind |-> "throws", status |-> 0, body |-> "none"]}
    \cup {[kind |-> "answers", status |-> st, body |-> b] :
            st \in {200, 422, 500}, b \in {"posting", "detail", "notJson"}}

\* the keys of the object response.json() returns
DataKeys(body) ==
  IF body = "posting" THEN {"structured_data", "natural_posting"} ELSE {"detail"}

\* serve(): OPTIONS, req.json(), userInput, fetch(LLM endpoint)
GenerateStart ==
  /\ genPc \in {"idle", "done"}
  /\ \E rq \in GenRequests :
       /\ genReq' = rq
       /\ genAnswer' = NoLLMAnswer
       /\ IF rq.method = "OPTIONS"
          THEN /\ genResponse' = [status |-> 200, keys |-> {}, body |-> "none"]
               /\ genPc' = "done"
               /\ genSent' = <<>>
          ELSE IF ~rq.json
               THEN /\ genResponse' = GenCatchResponse("SyntaxError")
                    /\ genPc' = "done"
                    /\ genSent' = <<>>
               ELSE /\ genResponse' = NoGenResponse
                    /\ genPc' = "llm"
                    /\ genSent' = userInput(rq.fields)
  /\ UNCHANGED <<approval, functions, pages>>

\* const data = await response.json(); return new Response(JSON.stringify(data))
GenerateLLMResponse ==
  /\ genPc = "llm"
  /\ \E a \in LLMAnswers :
       /\ genAnswer' = a
       /\ genResponse' =
            IF a.kind = "throws" THEN GenCatchResponse("fetch failed")
            ELSE IF a.body = "notJson" THEN GenCatchResponse("SyntaxError")
            ELSE [status |-> 200, keys |-> DataKeys(a.body), body |-> a.body]
  /\ genPc' = "done"
  /\ UNCHANGED <<genReq, genSent, approval, functions, pages>>

GenerationInit ==
  /\ ApprovalIdle({[openai |-> FALSE, cohere |-> FALSE, promotion |-> FALSE]})
  /\ FunctionsIdle
  /\ GenerationIdle
  /\ PagesIdle

GenerationNext == GenerateStart \/ GenerateLLMResponse

GenerationSpec == GenerationInit /\ [][GenerationNext]_vars

\* ------------------------------------------------ the pages in the browser
\* src/pages/CreatePosting.tsx and src/pages/ReviewPosting.tsx.  A page
\* instance lives from the navigation that mounts it to the next navigation;
\* a handler that is awaiting a call when its page is left still runs to its
\* end, but its state updates go to the instance that is gone (its run is
\* no longer `mounted`).
Routes == {"/create-posting", "/review-posting", "/postings"}
FormFields == {"jobTitle", "careerLevel", "location", "department", "keySkills"}
FieldValues == {"", "x"}
\* what api.generateJobPosting resolves with
GeneratedPostings == {"posting"}
\* what supabase.functions.invoke("approve-posting") hands over: the success
\* envelope with its list of matches (data), the failure response of status
\* 500 or a failed request (error), or an exception
MatchLists == {<<>>, <<"Ann">>}
InvokeResults ==
  {[kind |-> "data", similarEmployees |-> m] : m \in MatchLists}
    \cup {[kind |-> k, similarEmployees |-> <<>>] : k \in {"error", "throws"}}

\* the page that started these runs is unmounted
Detached(runs) == [n \in DOMAIN runs |-> [runs[n] EXCEPT !.mounted = FALSE]]

\* navigate(path, {state}): the page at path is mounted with fresh state
Mount(path, state) ==
  /\ route' = path
  /\ locationState' = state
  /\ formData' = EmptyForm
  /\ isGenerating' = FALSE
  /\ isApproving' = FALSE
  /\ similarEmployees' = <<>>

Toast(by, run, kind, text) == [by |-> by, run |-> run, kind |-> kind, text |-> text]

\* the user opens a page by its address or from the navigation bar
OpenPage(path) ==
  /\ Mount(path, NoLocationState)
  /\ generateRuns' = Detached(generateRuns)
  /\ approveRuns' = Detached(approveRuns)
  /\ UNCHANGED toasts
  /\ UNCHANGED <<approval, functions, generation>>

\* setFormData(prev => ({...prev, [field]: value}))
handleInputChange(field, value) ==
  /\ route = "/create-posting"
  /\ formData' = [formData EXCEPT ![field] = value]
  /\ UNCHANGED <<route, locationState, isGenerating, isApproving,
                 similarEmployees, generateRuns, approveRuns, toasts>>
  /\ UNCHANGED <<approval, functions, generation>>

\* a validation that does not look at the department
MissingRequiredButDepartment(form) ==
  form.jobTitle = "" \/ form.careerLevel = "" \/ form.location = ""

\* !formData.jobTitle || !formData.careerLevel || !formData.location || !formData.department
MissingRequired(form) ==
  form.jobTitle = "" \/ form.careerLevel = "" \/ form.location = "" \/ form.department = ""

\* handleGenerate up to its return or to await api.generateJobPosting(...);
\* the button is disabled while isGenerating
handleGenerate ==
  /\ route = "/create-posting"
  /\ ~isGenerating
  /\ Len(generateRuns) < MaxGenerations
  /\ IF MissingRequired(formData)
     THEN /\ generateRuns' = Append(generateRuns,
                [mounted |-> TRUE, outcome |-> "returned", originalInput |-> EmptyForm])
          /\ toasts' = Append(toasts, Toast("generate", Len(generateRuns) + 1, "error",
                                            "Please fill in all required fields"))
          /\ UNCHANGED isGenerating
     ELSE /\ generateRuns' = Append(generateRuns,
                [mounted |-> TRUE, outcome |-> "called", originalInput |-> formData])
          /\ isGenerating' = TRUE
          /\ UNCHANGED toasts
  /\ UNCHANGED <<route, locationState, formData, isApproving, similarEmployees,
                 approveRuns>>
  /\ UNCHANGED <<approval, functions, generation>>

\* api.generateJobPosting settles: navigate to the review page with the
\* data, or toast.error(errorMessage); finally setIsGenerating(false)
GenerateSettles(n) ==
  /\ n \in DOMAIN generateRuns
  /\ generateRuns[n].outcome = "called"
  /\ \E resolved \in BOOLEAN, data \in GeneratedPostings :
       IF resolved
       THEN /\ Mount("/review-posting",
                     [generatedPosting |-> data,
                      originalInput |-> generateRuns[n].originalInput])
            /\ generateRuns' = Detached([generateRuns EXCEPT ![n].outcome = "resolved"])
            /\ approveRuns' = Detached(approveRuns)
            /\ UNCHANGED toasts
       ELSE /\ generateRuns' = [generateRuns EXCEPT ![n].outcome = "rejected"]
            /\ toasts' = Append(toasts, Toast("generate", n, "error",
                                              "Failed to generate job posting"))
            /\ isGenerating' = IF generateRuns[n].mounted THEN FALSE ELSE isGenerating
            /\ UNCHANGED <<route, locationState, formData, isApproving,
                           similarEmployees, approveRuns>>
  /\ UNCHANGED <<approval, functions, generation>>

\* the View Postings button: navigate("/postings")
ViewPostings ==
  /\ route = "/create-posting"
  /\ Mount("/postings", NoLocationState)
  /\ generateRuns' = Detached(generateRuns)
  /\ approveRuns' = Detached(approveRuns)
  /\ UNCHANGED toasts
  /\ UNCHANGED <<approval, functions, generation>>

\* "No posting data found": the button navigate("/create-posting")
CreateNewPosting ==
  /\ route = "/review-posting"
  /\ locationState.generatedPosting = "none"
  /\ Mount("/create-posting", NoLocationState)
  /\ generateRuns' = Detached(generateRuns)
  /\ approveRuns' = Detached(approveRuns)
  /\ UNCHANGED toasts
  /\ UNCHANGED <<approval, functions, generation>>

\* handleApprove up to await supabase.functions.invoke(...); the button is
\* disabled while isApproving
handleApprove ==
  /\ route = "/review-posting"
  /\ locationState.generatedPosting # "none"
  /\ ~isApproving
  /\ Len(approveRuns) < MaxApprovals
  /\ isApproving' = TRUE
  /\ approveRuns' = Append(approveRuns,
                           [mounted |-> TRUE, outcome |-> "pending", matches |-> <<>>])
  /\ UNCHANGED <<route, locationState, formData, isGenerating, similarEmployees,
                 generateRuns, toasts>>
  /\ UNCHANGED <<approval, functions, generation>>

\* data?.similarEmployees: an array is truthy, the empty one too
HasList(result) == result.kind = "data"

\* a handler that also reports the returned error before it throws it
ApproveFailureToastsTwice(n, result) ==
  IF result.kind = "error"
  THEN <<Toast("approve", n, "error", "Edge Function returned an error."),
         Toast("approve", n, "error", "Failed to approve posting. Please try again.")>>
  ELSE <<Toast("approve", n, "error", "Failed to approve posting. Please try again.")>>

\* if (error) throw error; ... catch { toast.error("Failed to approve posting...") }
ApproveFailureToasts(n, result) ==
  <<Toast("approve", n, "error", "Failed to approve posting. Please try again.")>>

\* setIsApproving(false) as the last statement of the try block
IsApprovingAfterTry(result) == result.kind \in {"error", "throws"}

\* finally { setIsApproving(false) }
IsApprovingAfter(result) == FALSE

\* the invoke settles: throw into the catch block, or show the matches, or
\* navigate to the listing; finally setIsApproving(false)
ApproveSettles(n) ==
  /\ n \in DOMAIN approveRuns
  /\ approveRuns[n].outcome = "pending"
  /\ \E result \in InvokeResults :
       LET mounted == approveRuns[n].mounted
           settled == [approveRuns EXCEPT ![n] =
                         [mounted |-> mounted, outcome |-> result.kind,
                          matches |-> result.similarEmployees]]
       IN IF result.kind \in {"error", "throws"}
          THEN /\ approveRuns' = settled
               /\ toasts' = toasts \o ApproveFailureToasts(n, result)
               /\ isApproving' = IF mounted THEN IsApprovingAfter(result) ELSE isApproving
               /\ UNCHANGED <<route, locationState, formData, isGenerating,
                              similarEmployees, generateRuns>>
          ELSE IF HasList(result)
          THEN /\ approveRuns' = settled
               /\ similarEmployees' = IF mounted THEN result.similarEmployees
                                      ELSE similarEmployees
               /\ toasts' = Append(toasts, Toast("approve", n, "success",
                                                 "Job posting approved and saved!"))
               /\ isApproving' = IF mounted THEN IsApprovingAfter(result) ELSE isApproving
               /\ UNCHANGED <<route, locationState, formData, isGenerating, generateRuns>>
          ELSE /\ approveRuns' = Detached(settled)
               /\ generateRuns' = Detached(generateRuns)
               /\ toasts' = Append(toasts, Toast("approve", n, "success",
                                                 "Job posting approved and saved!"))
               /\ Mount("/postings", NoLocationState)
  /\ UNCHANGED <<approval, functions, generation>>

\* handleDisapprove: toast.info("Posting disapproved"); navigate("/create-posting")
handleDisapprove ==
  /\ route = "/review-posting"
  /\ locationState.generatedPosting # "none"
  /\ toasts' = Append(toasts, Toast("disapprove", 0, "info", "Posting disapproved"))
  /\ Mount("/create-posting", NoLocationState)
  /\ generateRuns' = Detached(generateRuns)
  /\ approveRuns' = Detached(approveRuns)
  /\ UNCHANGED <<approval, functions, generation>>

PagesInit ==
  /\ ApprovalIdle({[openai |-> FALSE, cohere |-> FALSE, promotion |-> FALSE]})
  /\ FunctionsIdle
  /\ GenerationIdle
  /\ PagesIdle

PagesNext ==
  \/ \E path \in Routes : OpenPage(path)
  \/ \E field \in FormFields, value \in FieldValues : handleInputChange(field, value)
  \/ handleGenerate
  \/ \E n \in 1..MaxGenerations : GenerateSettles(n)
  \/ ViewPostings
  \/ CreateNewPosting
  \/ handleApprove
  \/ \E n \in 1..MaxApprovals : ApproveSettles(n)
  \/ handleDisapprove

PagesSpec == PagesInit /\ [][PagesNext]_vars

\* a call that was issued settles: the promise of the invoke is resolved or
\* rejected, and its continuation is run by the event loop
PagesFairSpec ==
  PagesSpec /\ \A n \in 1..MaxApprovals : WF_vars(ApproveSettles(n))

\* ------------------------------------------------------------------ claims
Called(r, op) == \E i \in DOMAIN calls[r] : calls[r][i].op = op
AnsweredOk(r, op) == \E i \in DOMAIN answers[r] : answers[r][i].op = op /\ answers[r][i].ok
AnsweredFail(r, op) == \E i \in DOMAIN answers[r] : answers[r][i].op = op /\ ~answers[r][i].ok
IsProviderCall(c) == c.op \in {"openai", "cohere"}
ProviderCalls(r) == SelectSeq(calls[r], IsProviderCall)
ProviderOps(r) == [i \in DOMAIN ProviderCalls(r) |-> ProviderCalls(r)[i].op]
Range(f) == {f[i] : i \in DOMAIN f}

\* getEmbedding was entered and every configured provider has failed
EmbeddingFailed(r) ==
  /\ \E i \in DOMAIN answers[r] : answers[r][i].op = "collection"
  /\ env.openai => AnsweredFail(r, "openai")
  /\ env.cohere => AnsweredFail(r, "cohere")

StageFailed(r, s) ==
  IF s = "embedding" THEN EmbeddingFailed(r) ELSE AnsweredFail(r, s)

FailRank(s) == IF s = "embedding" THEN StageRank("cohere") ELSE StageRank(s)

\* C1: when the row insert, the embedding acquisition, the vector upload or
\* the similarity query fails, the request has ended with status 500, the
\* body carries an error string and a timestamp, and no call of a later
\* stage has been issued.
C1_FatalFailure ==
  \A r \in Reqs : \A s \in {"insert", "embedding", "upload", "search"} :
    StageFailed(r, s) =>
      /\ pc[r] = "done"
      /\ response[r].status = 500
      /\ {"error", "timestamp"} \subseteq response[r].keys
      /\ Len(response[r].error) > 0
      /\ inflight[r] = {}
      /\ \A i \in DOMAIN calls[r] : StageRank(calls[r][i].op) <= FailRank(s)

C1_Witness ==
  \E r \in Reqs : AnsweredFail(r, "search") /\ pc[r] = "done" /\ response[r].status = 500

\* C2: the point id sent to the vector index is the id of the row the
\* insert of the same request returned, a success response carries that id
\* as posting.id, and the row of a request is not reassigned while the
\* request runs.
C2_PointIdIsRowId ==
  /\ [](\A r \in Reqs :
          /\ \A i \in DOMAIN calls[r] :
               calls[r][i].op = "upload" =>
                 /\ AnsweredOk(r, "insert")
                 /\ posting[r].id >= 1
                 /\ calls[r][i].arg = posting[r].id
                 /\ posting[r] \in job_postings
          /\ response[r].status = 200 =>
               /\ response[r].posting.id = posting[r].id
               /\ \E q \in points : q.id = posting[r].id /\ q.job_id = posting[r].id
          /\ \A q \in points : \E row \in job_postings : row.id = q.id)
  /\ [][\A r \in Reqs :
          (posting[r] # NoRow /\ budget' = budget) => posting'[r] = posting[r]]_vars

C2_Witness ==
  \E r \in Reqs : response[r].status = 200 /\ Called(r, "upload") /\ posting[r].id >= 1

\* C3: the stages of a request run in program order: every call is issued
\* after the answer to the previous one, at most one call is outstanding,
\* a stage is entered only when the stage before it has succeeded, and no
\* stage is entered twice.
C3_StageOrder ==
  /\ [](\A r \in Reqs :
          /\ Cardinality(inflight[r]) <= 1
          /\ Len(calls[r]) - Len(answers[r]) = Cardinality(inflight[r])
          /\ inflight[r] # {} => inflight[r] = {calls[r][Len(calls[r])].op}
          /\ \A i, j \in DOMAIN calls[r] :
               i < j => StageRank(calls[r][i].op) < StageRank(calls[r][j].op)
          /\ Called(r, "collection") => AnsweredOk(r, "insert") /\ embeddingText[r] # <<>>
          /\ Len(ProviderCalls(r)) > 0 => Called(r, "collection") /\ vectorSize[r] > 0
          /\ Called(r, "upload") => AnsweredOk(r, "openai") \/ AnsweredOk(r, "cohere")
          /\ Called(r, "search") => AnsweredOk(r, "upload")
          /\ Called(r, "predict") => AnsweredOk(r, "search")
          /\ response[r].status = 200 =>
               AnsweredOk(r, "search") /\ Len(calls[r]) = Len(answers[r]))
  /\ [][\A r \in Reqs :
          budget' = budget => StageRank(pc'[r]) >= StageRank(pc[r])]_vars

C3_Witness ==
  \E r \in Reqs : response[r].status = 200 /\ Called(r, "predict") /\ Called(r, "cohere")

\* C4: a success response is returned only when the insert succeeded and
\* the vector upload was acknowledged, and it carries the persisted row and
\* the list of matches.
C4_SuccessEnvelope ==
  \A r \in Reqs :
    (response[r].status = 200 \/ "qdrant_upload_success" \in response[r].keys) =>
      /\ response[r].status = 200
      /\ response[r].keys = {"posting", "similarEmployees", "qdrant_upload_success"}
      /\ AnsweredOk(r, "insert")
      /\ AnsweredOk(r, "upload")
      /\ response[r].posting = posting[r]
      /\ posting[r] \in job_postings
      /\ Len(response[r].similarEmployees) = Len(similarEmployeesData[r])
      /\ \A i \in DOMAIN similarEmployeesData[r] :
           /\ response[r].similarEmployees[i].id = similarEmployeesData[r][i].id
           /\ response[r].similarEmployees[i].similarity_score
                = similarEmployeesData[r][i].similarity_score

C4_Witness ==
  \E r \in Reqs : response[r].status = 200 /\ Len(response[r].similarEmployees) > 1

UploadRejected(r) ==
  \E i \in DOMAIN answers[r] :
    answers[r][i].op = "upload" /\ ~answers[r][i].ok /\ answers[r][i].text \in ErrTexts

UploadBody(r) ==
  answers[r][CHOOSE i \in DOMAIN answers[r] : answers[r][i].op = "upload"].text

\* C5: when the insert succeeded and the vector service answers the upload
\* with a non-success status, the request fails: one upload call only, the
\* error message contains the body of that answer, and the response carries
\* no posting and no success flag.
C5_UploadRejected ==
  \A r \in Reqs :
    (AnsweredOk(r, "insert") /\ UploadRejected(r)) =>
      /\ pc[r] = "done"
      /\ response[r].status = 500
      /\ UploadBody(r) \in Range(response[r].error)
      /\ Cardinality({i \in DOMAIN calls[r] : calls[r][i].op = "upload"}) = 1
      /\ "posting" \notin response[r].keys
      /\ "qdrant_upload_success" \notin response[r].keys
      /\ response[r].posting = NoRow

C5_Witness ==
  \E r \in Reqs : AnsweredOk(r, "insert") /\ UploadRejected(r) /\ posting[r] \in job_postings

\* C6: when a stage after the insert fails, the inserted row is still in
\* the posting store and an upserted point is still in the vector index;
\* no step removes or changes a row or a point.
C6_NoRollback ==
  /\ [](\A r \in Reqs :
          (AnsweredOk(r, "insert")
             /\ (EmbeddingFailed(r) \/ AnsweredFail(r, "upload") \/ AnsweredFail(r, "search"))) =>
            /\ posting[r] \in job_postings
            /\ AnsweredOk(r, "upload") => \E q \in points : q.id = posting[r].id)
  /\ [][job_postings \subseteq job_postings' /\ points \subseteq points']_vars

C6_Witness ==
  \E r \in Reqs :
    /\ AnsweredOk(r, "upload") /\ AnsweredFail(r, "search")
    /\ posting[r] \in job_postings
    /\ \E q \in points : q.id = posting[r].id

ValidationAbort(r) ==
  req[r].kind \in {"badBody", "badStructured", "noOriginalInput", "missingField"}

ConfigurationAbort(r) ==
  ~env.openai /\ ~env.cohere /\ response[r].error = ConfigurationError

\* C7: a request that aborts with a validation error or with the
\* configuration error (no embedding credential configured) has inserted no
\* row and upserted no point.
C7_AbortWithoutSideEffects ==
  \A r \in Reqs :
    (pc[r] = "done" /\ response[r].status = 500
       /\ (ValidationAbort(r) \/ ConfigurationAbort(r))) =>
      /\ ~AnsweredOk(r, "insert")
      /\ posting[r] \notin job_postings
      /\ ~Called(r, "upload")

\* C8: whenever getEmbedding has returned a vector, the vector has exactly
\* targetDimensions elements.
C8_ExactDimensions ==
  \A r \in Reqs : Called(r, "upload") => Len(embedding[r]) = vectorSize[r]

\* e is v cut to its first n elements or followed by zeros up to n
IsResized(e, v, n) ==
  /\ Len(e) = n
  /\ \A i \in 1..n : e[i] = IF i <= Len(v) THEN v[i] ELSE 0

\* C9: OpenAI is tried before Cohere; when OpenAI fails and Cohere
\* succeeds, the embedding is Cohere's vector resized to the target length,
\* and no provider is called after Cohere.
C9_FallbackToCohere ==
  \A r \in Reqs :
    /\ ProviderOps(r) \in {<<>>, <<"openai">>, <<"cohere">>, <<"openai", "cohere">>}
    /\ (env.openai /\ Len(ProviderOps(r)) > 0) => ProviderOps(r)[1] = "openai"
    /\ (AnsweredFail(r, "openai") /\ AnsweredOk(r, "cohere")) =>
         /\ ProviderOps(r) = <<"openai", "cohere">>
         /\ IsResized(embedding[r], providerRaw[r], vectorSize[r])
         /\ Called(r, "upload")

C9_Witness ==
  \E r \in Reqs :
    /\ AnsweredFail(r, "openai") /\ AnsweredOk(r, "cohere")
    /\ Len(providerRaw[r]) > vectorSize[r]

\* C10 as stated: whenever every configured provider has failed, or none is
\* configured, the error is the configuration error naming the credentials.
C10_AlwaysConfigurationError ==
  \A r \in Reqs :
    EmbeddingFailed(r) => response[r].status = 500 /\ response[r].error = ConfigurationError

CohereAnswer(r) == CHOOSE i \in DOMAIN answers[r] : answers[r][i].op = "cohere"

\* C10 (amended): whenever every configured provider has failed, or none is
\* configured, getEmbedding throws and the request ends with status 500;
\* the error is the failure of the last provider in priority order (Cohere)
\* when that provider is configured, and otherwise the configuration error
\* listing OPENAI_API_KEY and COHERE_API_KEY.
C10_ErrorOfLastProvider ==
  \A r \in Reqs :
    EmbeddingFailed(r) =>
      /\ pc[r] = "done"
      /\ response[r].status = 500
      /\ ~Called(r, "upload")
      /\ IF env.cohere
         THEN /\ response[r].error # ConfigurationError
              /\ "OPENAI_API_KEY" \notin Range(response[r].error)
              /\ answers[r][CohereAnswer(r)].text \in ErrTexts =>
                   response[r].error = <<"Cohere", "API failed", answers[r][CohereAnswer(r)].text>>
         ELSE /\ response[r].error = ConfigurationError
              /\ {"OPENAI_API_KEY", "COHERE_API_KEY"} \subseteq Range(response[r].error)

C10_Witness ==
  \E r \in Reqs :
    /\ env.openai /\ env.cohere
    /\ AnsweredFail(r, "openai") /\ AnsweredFail(r, "cohere")
    /\ response[r].status = 500

SuccessKeys == {"posting", "similarEmployees", "qdrant_upload_success"}

\* C11: a failed promotion-prediction call (non-success status or thrown
\* error) does not fail the approval: the request ends with the success
\* envelope, whose matches are the matches of the similarity query in the
\* same order.
C11_PredictionFailureTolerated ==
  \A r \in Reqs :
    AnsweredFail(r, "predict") =>
      /\ pc[r] = "done"
      /\ response[r].status = 200
      /\ response[r].keys = SuccessKeys
      /\ response[r].posting = posting[r]
      /\ Len(response[r].similarEmployees) = Len(similarEmployeesData[r])
      /\ \A i \in DOMAIN similarEmployeesData[r] :
           /\ response[r].similarEmployees[i].id = similarEmployeesData[r][i].id
           /\ response[r].similarEmployees[i].name = similarEmployeesData[r][i].name
           /\ response[r].similarEmployees[i].similarity_score
                = similarEmployeesData[r][i].similarity_score

C11_Witness ==
  \E r \in Reqs :
    /\ AnsweredFail(r, "predict")
    /\ response[r].status = 200
    /\ Len(response[r].similarEmployees) > 1

\* C12: in every success response each element of similarEmployees carries
\* a promotion probability between 0 and 1 (0..100 hundredths), also when
\* the prediction endpoint is not configured or its call failed.
C12_ProbabilityOnEveryMatch ==
  \A r \in Reqs :
    response[r].status = 200 =>
      \A i \in DOMAIN response[r].similarEmployees :
        response[r].similarEmployees[i].promotion_probability \in 0..100

\* addPromotionPredictions has returned for the arguments under call
Enriched == fn = "addPromotionPredictions" /\ Len(results) > 0

\* C13: for N employees and a prediction response of the same length whose
\* probabilities lie in 0..1 (both bounds included), addPromotionPredictions
\* returns N employees in the input order, employee i carrying the
\* probability the response has at index i, its other fields unchanged.
C13_PositionalMerge ==
  (/\ Enriched
   /\ Len(args[2]) = Len(args[1])
   /\ \A i \in DOMAIN args[2] : args[2][i] \in 0..100) =>
    \A k \in DOMAIN results :
      /\ Len(results[k]) = Len(args[1])
      /\ \A i \in DOMAIN args[1] :
           results[k][i] = [args[1][i] EXCEPT !.promotion_probability = args[2][i]]

\* C14: when the prediction response is shorter or longer than the list of
\* employees, addPromotionPredictions returns all N employees with the
\* default probability, none with a value of the response.
C14_MismatchAllDefault ==
  (Enriched /\ Len(args[2]) # Len(args[1])) =>
    \A k \in DOMAIN results :
      /\ Len(results[k]) = Len(args[1])
      /\ \A i \in DOMAIN args[1] :
           results[k][i].promotion_probability = DefaultProbability

\* C15: whatever the vector service answers to the search, in any order and
\* of any length, the similarEmployees of a success response are in
\* descending order of similarity_score and at most 5.
C15_SortedTopFive ==
  \A r \in Reqs :
    response[r].status = 200 =>
      /\ Len(response[r].similarEmployees) <= 5
      /\ \A i, j \in DOMAIN response[r].similarEmployees :
           i < j => response[r].similarEmployees[i].similarity_score
                      >= response[r].similarEmployees[j].similarity_score

RECURSIVE CutAt(_, _)
CutAt(s, seps) ==
  IF \A i \in DOMAIN s : s[i] \notin seps THEN <<s>>
  ELSE LET i == CHOOSE k \in DOMAIN s : s[k] \in seps /\ \A j \in 1..(k - 1) : s[j] \notin seps
       IN <<SubSeq(s, 1, i - 1)>> \o CutAt(SubSeq(s, i + 1, Len(s)), seps)

\* the trimmed, non-empty segments of s between separators, in order
Segments(s, seps) ==
  LET parts == CutAt(s, seps)
  IN SelectSeq([i \in DOMAIN parts |-> Trim(parts[i])], NonEmpty)

\* a result of processDepartments is a non-empty list of trimmed, non-empty
\* segments
WellFormedKeywords(keywords) ==
  /\ Len(keywords) > 0
  /\ \A i \in DOMAIN keywords : Len(keywords[i]) > 0 /\ Trim(keywords[i]) = keywords[i]

\* C17 as stated: on every string processDepartments returns the trimmed,
\* non-empty segments between the separators " - ", " / ", "/" and "-", and
\* ["General"] when there is none.
C17_SplitOnListedSeparators ==
  (fn = "processDepartments") =>
    \A k \in DOMAIN results :
      /\ WellFormedKeywords(results[k])
      /\ results[k] = IF Segments(args[1], {"-", "/"}) = <<>> THEN <<General>>
                      ELSE Segments(args[1], {"-", "/"})

\* C17 (amended): on every string processDepartments returns the same
\* non-empty ordered list at every call: the trimmed, non-empty segments
\* between the separators " - ", " / ", "/", "-" and the comma they are
\* replaced by ("T - S / E" gives T, S, E), and ["General"] when the string
\* is empty, only whitespace or only separators.
C17_SplitOnSeparatorsAndComma ==
  (fn = "processDepartments") =>
    \A k \in DOMAIN results :
      /\ WellFormedKeywords(results[k])
      /\ results[k] = results[1]
      /\ results[k] = IF Segments(args[1], {"-", "/", ","}) = <<>> THEN <<General>>
                      ELSE Segments(args[1], {"-", "/", ","})
      /\ args[1] = CategoryExample => results[k] = <<<<"T">>, <<"S">>, <<"E">>>>
      /\ (\A i \in DOMAIN args[1] : args[1][i] \in {" ", "-", "/", ","}) =>
           results[k] = <<General>>

C17_Witness ==
  /\ fn = "processDepartments"
  /\ args[1] = <<"T", ",", "S">>
  /\ Len(results) = MaxCalls
  /\ results[1] = <<<<"T">>, <<"S">>>>

GenerationFailed ==
  genAnswer.kind = "throws" \/ (genAnswer.kind = "answers" /\ genAnswer.status \notin 200..299)

\* C19: whenever generation failed (non-success status of the LLM endpoint
\* or a thrown call), the generation endpoint answers with a non-2xx
\* status and a body {error}.
C19_FailureIsNon2xx ==
  (genPc = "done" /\ GenerationFailed) =>
    /\ genResponse.status \notin 200..299
    /\ genResponse.keys = {"error"}

ExternalOps == {"insert", "collection", "openai", "cohere", "upload", "search", "predict"}

CallsOf(r, op) == {i \in DOMAIN calls[r] : calls[r][i].op = op}

\* C20: within one request each external operation is called at most once,
\* also after its failure, no step adds more than one call, and the
\* prediction endpoint is called once with the whole list of matches.
C20_EachOperationOnce ==
  /\ [](\A r \in Reqs :
          /\ \A op \in ExternalOps : Cardinality(CallsOf(r, op)) <= 1
          /\ \A i \in DOMAIN calls[r] : calls[r][i].op \in ExternalOps
          /\ \A op \in ExternalOps :
               AnsweredFail(r, op) => Cardinality(CallsOf(r, op)) = 1 /\ op \notin inflight[r]
          /\ \A i \in CallsOf(r, "predict") :
               calls[r][i].arg = Len(similarEmployeesData[r]) /\ calls[r][i].arg > 0)
  /\ [][\A r \in Reqs :
          budget' = budget =>
            /\ Len(calls'[r]) <= Len(calls[r]) + 1
            /\ SubSeq(calls'[r], 1, Len(calls[r])) = calls[r]]_vars

C20_Witness ==
  \E r \in Reqs :
    /\ AnsweredFail(r, "openai")
    /\ AnsweredFail(r, "cohere")
    /\ pc[r] = "done"
    /\ Cardinality(CallsOf(r, "cohere")) = 1

\* C22: when the similarity query succeeds with zero matches, the request
\* ends with the success envelope and an empty similarEmployees list, and
\* the prediction endpoint is not called, configured or not.
C22_NoMatches ==
  \A r \in Reqs :
    (AnsweredOk(r, "search") /\ similarEmployeesData[r] = <<>>) =>
      /\ pc[r] = "done"
      /\ response[r].status = 200
      /\ response[r].keys = SuccessKeys
      /\ response[r].posting = posting[r]
      /\ response[r].similarEmployees = <<>>
      /\ ~Called(r, "predict")

C22_Witness ==
  \E r \in Reqs :
    /\ env.promotion
    /\ AnsweredOk(r, "search")
    /\ similarEmployeesData[r] = <<>>
    /\ response[r].status = 200

\* the collection lookup failed or reported no vector size
CollectionDefaulted(r) ==
  \E i \in DOMAIN answers[r] :
    /\ answers[r][i].op = "collection"
    /\ ~answers[r][i].ok \/ answers[r][i].text = "noSize"

\* C24: when the collection metadata request answers with a non-success
\* status, throws or reports no vector size, the target size is 384, the
\* pipeline goes on to embedding acquisition with that target, and a
\* failure of the request comes from a later stage.
C24_LookupNeverFails ==
  \A r \in Reqs :
    CollectionDefaulted(r) =>
      /\ vectorSize[r] = DefaultVectorSize
      /\ (env.openai \/ env.cohere) =>
           /\ Len(ProviderCalls(r)) > 0
           /\ \A i \in DOMAIN ProviderCalls(r) : ProviderCalls(r)[i].arg = DefaultVectorSize
      /\ response[r].status = 500 =>
           EmbeddingFailed(r) \/ AnsweredFail(r, "upload") \/ AnsweredFail(r, "search")

C24_Witness ==
  \E r \in Reqs :
    /\ AnsweredFail(r, "collection")
    /\ response[r].status = 200
    /\ vectorSize[r] = DefaultVectorSize

\* C25: for every search result item and every subset of payload fields
\* that is absent, querySimilarEmployees returns the employee: an absent
\* name or department is 'Unknown', an absent current role is the
\* designation or else 'Unknown', an absent email is employee<id>@company.com,
\* an absent numeric feature is 0, a present field keeps its value, and
\* similarity_score is the item's score.
C25_PayloadDefaults ==
  (fn = "querySimilarEmployees") =>
    \A k \in DOMAIN results :
      LET item == args[1][1]
          p == item.payload
          e == results[k][1]
      IN /\ Len(results[k]) = 1
         /\ e.id = item.id
         /\ e.similarity_score = item.score
         /\ e.name = IF p.name = AbsentText THEN "Unknown" ELSE p.name
         /\ e.department = IF p.department = AbsentText THEN "Unknown" ELSE p.department
         /\ e.current_role = IF p.current_role # AbsentText THEN p.current_role
                             ELSE IF p.designation # AbsentText THEN p.designation
                             ELSE "Unknown"
         /\ e.email = IF p.email = <<>> THEN <<"employee", "7", "@company.com">> ELSE p.email
         /\ \A f \in NumericFields : e[f] = IF p[f] = Undefined THEN 0 ELSE p[f]

C25_Witness ==
  /\ fn = "querySimilarEmployees"
  /\ Len(results) > 0
  /\ args[1][1].payload.current_role = AbsentText
  /\ args[1][1].payload.designation = "Engineer"
  /\ args[1][1].payload.email = <<>>
  /\ results[1][1].current_role = "Engineer"

\* C26: for every provider and every input text, shorter than, as long as
\* or longer than 8000 characters, getEmbedding produces a request whose
\* text is the first 8000 characters of the input, and the whole input when
\* it has at most 8000 characters.
C26_InputCapped ==
  (fn = "getEmbedding") =>
    \A k \in DOMAIN results :
      LET text == args[2]
          sent == results[k]
      IN /\ Len(sent) = IF Len(text) > 8000 THEN 8000 ELSE Len(text)
         /\ \A i \in 1..Len(sent) : sent[i] = text[i]

C26_Witness ==
  /\ fn = "getEmbedding"
  /\ args[1] = "cohere"
  /\ Len(args[2]) > 8000
  /\ Len(results) > 0
  /\ Len(results[1]) = 8000

\* the identifiers of a list of employees, in order
Ids(employees) == [i \in DOMAIN employees |-> employees[i].id]

\* invocation q takes no step
Stays(q) == pc'[q] = pc[q] /\ answers'[q] = answers[q]

\* C21: in every interleaving of two approval requests, a request uploads
\* its vector under the id of the row it inserted itself, the point stored
\* under that id carries its own embedding, its success response carries its
\* own row and its own matches, the id of one request's row is never the id
\* in the other request's upload or response, and a step of one request
\* changes no local value, call or response of the other.
C21_Isolation ==
  /\ [](\A r \in Reqs :
          /\ \A i \in CallsOf(r, "upload") :
               /\ calls[r][i].arg = posting[r].id
               /\ posting[r] \in job_postings
               /\ \A q \in Reqs \ {r} : calls[r][i].arg # posting[q].id
          /\ AnsweredOk(r, "upload") =>
               \E pt \in points :
                 /\ pt.id = posting[r].id
                 /\ pt.job_id = posting[r].id
                 /\ pt.vector = embedding[r]
                 /\ pt.embedding_text = embeddingText[r]
          /\ response[r].status = 200 =>
               /\ response[r].posting = posting[r]
               /\ Ids(response[r].similarEmployees) = Ids(similarEmployeesData[r])
               /\ \A q \in Reqs \ {r} : response[r].posting.id # posting[q].id)
  /\ [][\A q \in Reqs :
          Stays(q) =>
            /\ posting'[q] = posting[q]
            /\ embedding'[q] = embedding[q]
            /\ similarEmployeesData'[q] = similarEmployeesData[q]
            /\ calls'[q] = calls[q]
            /\ response'[q] = response[q]]_vars

\* the second request inserted its row first, and both requests answered
\* with different embeddings and different matches
C21_Witness ==
  /\ response[1].status = 200
  /\ response[2].status = 200
  /\ posting[2].id < posting[1].id
  /\ embedding[1] # embedding[2]
  /\ Ids(similarEmployeesData[1]) # Ids(similarEmployeesData[2])

\* requests whose insert has succeeded, requests whose upload has succeeded
Persisted == {r \in Reqs : AnsweredOk(r, "insert")}
Uploaded == {r \in Reqs : AnsweredOk(r, "upload")}

\* C23: every request whose insert succeeds adds one row with an identifier
\* no earlier row has; rows and points are never removed or replaced, so
\* two approvals of the same payload leave two rows and two points under
\* distinct identifiers.
C23_NotIdempotent ==
  /\ [](/\ Cardinality(job_postings) = Cardinality(Persisted)
        /\ Cardinality(points) = Cardinality(Uploaded)
        /\ \A a, b \in job_postings : a.id = b.id => a = b
        /\ \A a, b \in points : a.id = b.id => a = b
        /\ \A r, q \in Persisted : r # q => posting[r].id # posting[q].id)
  /\ [][/\ job_postings \subseteq job_postings'
        /\ points \subseteq points'
        /\ \A r \in Reqs :
             (AnsweredOk(r, "insert")' /\ ~AnsweredOk(r, "insert")) =>
               /\ job_postings' = job_postings \cup {posting'[r]}
               /\ \A row \in job_postings : row.id # posting'[r].id]_vars

\* two approvals of the same payload have both succeeded
C23_Witness ==
  /\ response[1].status = 200
  /\ response[2].status = 200
  /\ req[1].payload = req[2].payload
  /\ Cardinality(job_postings) = 2
  /\ Cardinality(points) = 2
  /\ posting[1].id # posting[2].id

\* toasts of one kind shown by run n of a handler
ToastsOf(by, n, kind) ==
  {i \in DOMAIN toasts : toasts[i].by = by /\ toasts[i].run = n /\ toasts[i].kind = kind}

\* C27: every approval attempt that has failed (the function call returned
\* an error, which is how the failure response with its error field
\* arrives, or an exception was thrown) has shown exactly one error message
\* and no success message; an attempt that has not settled has shown nothing.
C27_OneErrorPerFailure ==
  \A n \in DOMAIN approveRuns :
    /\ approveRuns[n].outcome \in {"error", "throws"} =>
         /\ Cardinality(ToastsOf("approve", n, "error")) = 1
         /\ ToastsOf("approve", n, "success") = {}
    /\ approveRuns[n].outcome = "pending" =>
         ToastsOf("approve", n, "error") \cup ToastsOf("approve", n, "success") = {}

C27_Witness ==
  \E n \in DOMAIN approveRuns :
    /\ approveRuns[n].outcome = "error"
    /\ approveRuns[n].mounted
    /\ ToastsOf("approve", n, "error") # {}

\* C28: when an approval started from the page on screen succeeds, the page
\* shows the returned matches (at least one card) or the browser is at the
\* postings listing; with an empty list it is at the listing.
C28_MatchesOrListing ==
  [][\A n \in DOMAIN approveRuns :
       (/\ approveRuns[n].mounted
        /\ approveRuns[n].outcome = "pending"
        /\ approveRuns'[n].outcome = "data") =>
         IF approveRuns'[n].matches # <<>>
         THEN /\ route' = "/review-posting"
              /\ similarEmployees' = approveRuns'[n].matches
         ELSE route' = "/postings"]_vars

\* C29: handleGenerate calls the generation endpoint exactly when job title,
\* career level, location and department are all non-empty, whatever the key
\* skills; otherwise it shows one error, calls nothing and leaves the
\* browser where it is; the review page never holds a posting that no call
\* returned.
C29_ValidatedBeforeCall ==
  /\ [][Len(generateRuns') > Len(generateRuns) =>
          LET run == generateRuns'[Len(generateRuns')]
              filled == \A f \in {"jobTitle", "careerLevel", "location", "department"} :
                          formData[f] # ""
          IN /\ run.outcome = "called" <=> filled
             /\ ~filled =>
                  /\ run.outcome = "returned"
                  /\ route' = route
                  /\ locationState' = locationState
                  /\ Len(toasts') = Len(toasts) + 1
                  /\ toasts'[Len(toasts')].by = "generate"
                  /\ toasts'[Len(toasts')].kind = "error"]_vars
  /\ [](locationState.generatedPosting # "none" =>
          \E n \in DOMAIN generateRuns : generateRuns[n].outcome = "resolved")

\* the form was submitted with the department missing and the key skills
\* filled in
C29_Witness ==
  \E n \in DOMAIN generateRuns :
    /\ generateRuns[n].outcome = "returned"
    /\ formData.department = ""
    /\ formData.jobTitle # ""
    /\ formData.keySkills # ""
    /\ ToastsOf("generate", n, "error") # {}

\* an approval started from the page on screen has not settled
ApprovalInFlight ==
  \E n \in DOMAIN approveRuns : approveRuns[n].mounted /\ approveRuns[n].outcome = "pending"

====
